---- MODULE Spec2Model ----
(***************************************************************************)
(* Model of RouteOptimizationEngine (ml/algorithms/route_optimization.py). *)
(*                                                                         *)
(* The engine is an object whose only mutable state is its configuration   *)
(* (the zone table, replaced by load_model); its four public operations    *)
(* are calls that take inputs and return a value or raise.  One action     *)
(* models one whole call: the inputs are drawn from small sets, the value  *)
(* the code would return (or the fact that it raises) is stored in         *)
(* outcome/result.                                                         *)
(*                                                                         *)
(* Quantities are fixed point: miles and minutes in thousandths, scores    *)
(* and multipliers in thousandths.  A division truncates where the float   *)
(* arithmetic of the code rounds.                                          *)
(***************************************************************************)
EXTENDS Integers, Sequences, FiniteSets, TLC

VARIABLES zones, op, args, outcome, result

vars == <<zones, op, args, outcome, result>>

-----------------------------------------------------------------------------
(* Bounds of the model *)

\* longest pending-request list handed to optimize_pickup_route / find_pool_ride_matches
MaxRequests == 4

\* longest waypoint list handed to optimize_multi_stop_route
MaxWaypoints == 3

-----------------------------------------------------------------------------
(* Geometry: _calculate_distance *)

\* A coordinate pair that is not a number (e.g. strings, None).
NonNumeric == "non_numeric"

\* Named coordinate pairs: the five zone centroids of __init__ and a point
\* about 15 miles north of downtown, (36.600, -94.209).
Points == <<"downtown", "airport", "business", "residential", "retail", "far">>

PointSet == {Points[i] : i \in 1..Len(Points)}

PointIndex(p) == CHOOSE i \in 1..Len(Points) : Points[i] = p

\* Haversine distance with r = 3956 between the named points, in thousandths
\* of a mile (computed with the formula of lines 468-477).
DistanceTable ==
  << <<    0,  1030,   745,   916,   350, 15673>>,
     << 1030,     0,  1773,  1432,  1350, 14857>>,
     <<  745,  1773,     0,  1072,   491, 16233>>,
     <<  916,  1432,  1072,     0,  1099, 15210>>,
     <<  350,  1350,   491,  1099,     0, 16019>>,
     <<15673, 14857, 16233, 15210, 16019,     0>> >>

\* A coordinate pair whose numbers are float('nan').
NotANumber == "nan"

\* float('nan'), the value of every sum, product and quotient it enters; every
\* comparison with it is false.
NaN == -2

\* radians() of a non-number raises inside the try: the except returns 0.0.
\* The formula of lines 468-477 raises nothing for float('nan') and yields it.
calculate_distance(p, q) ==
  IF p = NonNumeric \/ q = NonNumeric
    THEN 0
  ELSE IF p = NotANumber \/ q = NotANumber
    THEN NaN
  ELSE DistanceTable[PointIndex(p)][PointIndex(q)]

\* Body(v), with v evaluated once and handed to Body as a value.
Let(v, Body(_)) == CHOOSE r \in {Body(x) : x \in {v}} : TRUE

Max(a, b) == IF a >= b THEN a ELSE b

Min(a, b) == IF a <= b THEN a ELSE b

-----------------------------------------------------------------------------
(* Zone table, zone classification, base travel time *)

\* self.zones of __init__, in the dict's insertion (= iteration) order.
DefaultZones ==
  << [name |-> "downtown",    at |-> "downtown",    avg_speed_mph |-> 25],
     [name |-> "airport",     at |-> "airport",     avg_speed_mph |-> 35],
     [name |-> "business",    at |-> "business",    avg_speed_mph |-> 30],
     [name |-> "residential", at |-> "residential", avg_speed_mph |-> 35],
     [name |-> "retail",      at |-> "retail",      avg_speed_mph |-> 20] >>

\* Zone tables a saved model file may carry (load_model takes any 'zones' value
\* of the file): a two-zone table with other speeds, and an empty table.
SavedZones ==
  << [name |-> "airport",  at |-> "airport",  avg_speed_mph |-> 50],
     [name |-> "downtown", at |-> "downtown", avg_speed_mph |-> 15] >>

ZoneTables == {DefaultZones, SavedZones, << >>}

\* float('inf'), the initial min_distance of the nearest-so-far loops.
Inf == -1

\* distance < min_distance, which is false for float('nan').
IsLess(distance, min_distance) ==
  distance # NaN /\ (min_distance = Inf \/ distance < min_distance)

RECURSIVE ClassifyLoop(_, _, _, _, _)
ClassifyLoop(zs, p, i, min_distance, closest_zone) ==
  IF i > Len(zs)
    THEN closest_zone
    ELSE LET distance == calculate_distance(p, zs[i].at)
         IN  IF IsLess(distance, min_distance)
               THEN ClassifyLoop(zs, p, i + 1, distance, zs[i].name)
               ELSE ClassifyLoop(zs, p, i + 1, min_distance, closest_zone)

classify_location_to_zone(zs, p) == ClassifyLoop(zs, p, 1, Inf, "residential")

\* self.zones.get(zone, {}).get('avg_speed_mph', 30)
ZoneSpeed(zs, zone) ==
  IF \E i \in 1..Len(zs) : zs[i].name = zone
    THEN zs[CHOOSE i \in 1..Len(zs) : zs[i].name = zone].avg_speed_mph
    ELSE 30

\* distance / ((from_speed + to_speed) / 2) * 60, at least 1 minute; a zero
\* average speed raises ZeroDivisionError and the except returns distance * 2.
calculate_base_travel_time(zs, from, to, distance_miles) ==
  LET from_speed == ZoneSpeed(zs, classify_location_to_zone(zs, from))
      to_speed   == ZoneSpeed(zs, classify_location_to_zone(zs, to))
  IN  IF from_speed + to_speed = 0
        THEN IF distance_miles = NaN THEN NaN ELSE distance_miles * 2
      ELSE IF distance_miles = NaN
        THEN \* max(1.0, nan) keeps its first argument
             1000
      ELSE Max(1000, (distance_miles * 120) \div (from_speed + to_speed))

-----------------------------------------------------------------------------
(* Traffic and weather providers (self.api_extractor) *)

\* What get_traffic_data may do: raise an exception, hand back None (what
\* MLAPIDataExtractor does when its request fails), a dict without a
\* 'delay_minutes' key (what MLAPIDataExtractor.get_traffic_data builds), a
\* dict whose delay is a number of minutes (a delay is never negative), and
\* a dict whose delay is a duration object (datetime.timedelta) rather than a
\* number: the sum of line 356 then raises, which is the way into the
\* fallback prediction.
TrafficResponses ==
  { [kind |-> "raises",    delay |-> 0],
    [kind |-> "none",      delay |-> 0],
    [kind |-> "no_key",    delay |-> 0],
    [kind |-> "minutes",   delay |-> 6],
    [kind |-> "minutes",   delay |-> 30],
    [kind |-> "timedelta", delay |-> 6] }

\* What get_weather_data may do: raise an exception, hand back None, a dict
\* without a 'condition'
\* key (MLAPIDataExtractor.get_weather_data writes the condition its server
\* reports, here rain, under the key 'conditions'), or a dict with a
\* condition string.
WeatherResponses ==
  { [kind |-> "raises",    condition |-> ""],
    [kind |-> "none",      condition |-> ""],
    [kind |-> "no_key",    condition |-> "", conditions |-> "rain"],
    [kind |-> "condition", condition |-> "cloudy"],
    [kind |-> "condition", condition |-> "storm"],
    [kind |-> "condition", condition |-> "fog"] }

\* weather_data.get('condition', 'clear').lower()
ConditionOf(weather) ==
  IF weather.kind = "condition" THEN weather.condition ELSE "clear"

\* weather_delays of _get_weather_delay, in thousandths of a minute.
weather_delays(condition) ==
  CASE condition \in {"clear", "sunny", "partly_cloudy"} -> 0
    [] condition = "cloudy"     -> 500
    [] condition = "overcast"   -> 1000
    [] condition = "mist"       -> 2000
    [] condition = "light_rain" -> 3000
    [] condition = "rain"       -> 5000
    [] condition = "heavy_rain" -> 8000
    [] condition = "snow"       -> 10000
    [] condition = "storm"      -> 15000
    [] OTHER                    -> 0

\* Variant of get_weather_delay whose except block assumes rain.
get_weather_delay_AssumesRain(weather) ==
  CASE weather.kind = "raises" -> weather_delays("rain")
    [] weather.kind = "none"   -> 0
    [] OTHER                   -> weather_delays(ConditionOf(weather))

\* Lines 548-575: 0.0 when the provider raises (the except of line 573) or
\* hands back nothing (line 558), the table value of the condition otherwise.
get_weather_delay(weather) ==
  IF weather.kind \in {"raises", "none"} THEN 0
  ELSE weather_delays(ConditionOf(weather))

\* Variant of delay_multiplier that takes every hour from 7 to 19 as rush hour.
delay_multiplier_RushAllDay(hour) ==
  IF hour \in 7..19 THEN 1500 ELSE 500

\* Thousandths of the time-of-day multiplier of _get_traffic_delay.
delay_multiplier(hour) ==
  IF hour \in {7, 8, 9, 17, 18, 19} THEN 1500
  ELSE IF hour \in 10..16 THEN 1000
  ELSE 500

\* delay_minutes * delay_multiplier, in thousandths of a minute.  A duration
\* times a float is a duration again: the product of a "timedelta" delay is
\* its length, and IsDuration tells that the value is not a number.
get_traffic_delay(traffic, hour) ==
  CASE traffic.kind = "raises" -> 0
    [] traffic.kind = "none"   -> 0
    [] traffic.kind = "no_key" -> 0
    [] OTHER                   -> traffic.delay * delay_multiplier(hour)

IsDuration(traffic) == traffic.kind = "timedelta"

\* Variant of ProviderQueries that asks once more after a failed query.
ProviderQueries_RetryOnce(response) ==
  IF response.kind \in {"raises", "none"} THEN 2 ELSE 1

\* How often a helper queries the provider for one lookup: lines 526, 556,
\* 713 and 737 call it once, in no loop of their own, whatever it answers.
ProviderQueries(response) == 1

-----------------------------------------------------------------------------
(* predict_eta *)

\* Variant of calculate_eta_confidence without the floor of the base
\* confidence and without the final clip.
calculate_eta_confidence_Unclipped(distance_miles, traffic_delay, weather_delay) ==
  (1000 - (distance_miles \div 20))
    - Min(300, traffic_delay \div 20) - Min(200, weather_delay \div 10)

\* Variant of calculate_eta_confidence whose base confidence is clipped to
\* [0.3, 0.95] before the penalties are taken off, the result floored at 0.3.
calculate_eta_confidence_BaseClipped(distance_miles, traffic_delay, weather_delay) ==
  Max(300, Max(300, Min(950, 1000 - (distance_miles \div 20)))
             - Min(300, traffic_delay \div 20) - Min(200, weather_delay \div 10))

\* Lines 577-594: max(0.5, 1 - distance / 20) less the two penalties, clipped
\* to [0.3, 0.95].
calculate_eta_confidence(distance_miles, traffic_delay, weather_delay) ==
  LET base_confidence == Max(500, 1000 - (distance_miles \div 20))
      traffic_penalty == Min(300, traffic_delay \div 20)
      weather_penalty == Min(200, weather_delay \div 10)
      confidence      == base_confidence - traffic_penalty - weather_penalty
  IN  Max(300, Min(950, confidence))

create_fallback_eta(from, to) ==
  LET distance       == calculate_distance(from, to)
      estimated_time == (distance * 5) \div 2
  IN  [ destination              |-> to,
        estimated_time_minutes   |-> estimated_time,
        confidence_interval_min  |-> (estimated_time * 4) \div 5,
        confidence_interval_max  |-> (estimated_time * 3) \div 2,
        traffic_delay_minutes    |-> 0,
        weather_delay_minutes    |-> 0,
        base_time_minutes        |-> estimated_time,
        confidence_score         |-> 500,
        factors                  |-> <<"Fallback estimation">> ]

Raised(exception) == [outcome |-> "raised", value |-> exception]

Returned(value) == [outcome |-> "returned", value |-> value]

\* Variant of EstimatedTime that forgets the weather delay.
EstimatedTime_NoWeather(base_time, traffic_delay, weather_delay) ==
  base_time + traffic_delay

\* Line 356: base_time + traffic_delay + weather_delay
EstimatedTime(base_time, traffic_delay, weather_delay) ==
  base_time + traffic_delay + weather_delay

\* Variant of ConfidenceMin whose floor is twice the base time, not half.
ConfidenceMin_DoubledFloor(base_time, estimated_time) ==
  Max(base_time * 2, estimated_time - estimated_time \div 5)

\* Lines 359-360: the estimate less 20%, at least half the base time.
ConfidenceMin(base_time, estimated_time) ==
  Max(base_time \div 2, estimated_time - estimated_time \div 5)

\* Lines 359, 361: the estimate plus 20%.
ConfidenceMax(estimated_time) == estimated_time + estimated_time \div 5

predict_eta(zs, from, to, hour, traffic, weather) ==
  IF from = NonNumeric \/ to = NonNumeric
    THEN \* line 342 formats the coordinates with :.3f before the try
         Raised("ValueError")
    ELSE
      LET distance_miles == calculate_distance(from, to)
          base_time      == calculate_base_travel_time(zs, from, to, distance_miles)
          traffic_delay  == get_traffic_delay(traffic, hour)
          weather_delay  == get_weather_delay(weather)
      IN  IF IsDuration(traffic)
            THEN \* float + timedelta raises TypeError inside the try
                 Returned(create_fallback_eta(from, to))
            ELSE
              LET estimated_time == EstimatedTime(base_time, traffic_delay, weather_delay)
              IN  Returned(
                    [ destination              |-> to,
                      estimated_time_minutes   |-> estimated_time,
                      confidence_interval_min  |-> ConfidenceMin(base_time, estimated_time),
                      confidence_interval_max  |-> ConfidenceMax(estimated_time),
                      traffic_delay_minutes    |-> traffic_delay,
                      weather_delay_minutes    |-> weather_delay,
                      base_time_minutes        |-> base_time,
                      confidence_score         |->
                          calculate_eta_confidence(distance_miles, traffic_delay, weather_delay),
                      factors                  |->
                          (IF traffic_delay > 2000 THEN <<"Traffic delay">> ELSE << >>)
                          \o (IF weather_delay > 1000 THEN <<"Weather delay">> ELSE << >>)
                          \o (IF distance_miles > 10000 THEN <<"Long distance trip">> ELSE << >>) ])

-----------------------------------------------------------------------------
(* Ride requests and waypoints *)

\* self.pickup_tolerance_minutes of __init__
pickup_tolerance_minutes == 5

\* The pending ride requests a caller may hold.  form tells what the dict is
\* like: "ok" has every key and an ISO pickup_time; "no_passenger_id" lacks
\* the required key 'passenger_id'; "bad_time" carries a pickup_time that
\* datetime.fromisoformat rejects.  req_3 is picked up where
\* req_1 is and by the same passenger; req_4 has coordinates that are strings.
\* req_7 makes a fourth request whose coordinates are numbers.
RequestPool ==
  { [id |-> "req_1", passenger_id |-> "pass_1", pickup |-> "airport",
     priority |-> 1, form |-> "ok"],
    [id |-> "req_2", passenger_id |-> "pass_2", pickup |-> "business",
     priority |-> 2, form |-> "ok"],
    [id |-> "req_3", passenger_id |-> "pass_1", pickup |-> "airport",
     priority |-> 1, form |-> "ok"],
    [id |-> "req_4", passenger_id |-> "pass_4", pickup |-> NonNumeric,
     priority |-> 1, form |-> "ok"],
    [id |-> "req_5", passenger_id |-> "pass_5", pickup |-> "retail",
     priority |-> 1, form |-> "no_passenger_id"],
    [id |-> "req_6", passenger_id |-> "pass_6", pickup |-> "far",
     priority |-> 3, form |-> "bad_time"],
    [id |-> "req_7", passenger_id |-> "pass_7", pickup |-> "retail",
     priority |-> 1, form |-> "ok"] }

\* The lists of at most n pending requests, each request held once.
RequestLists(n) ==
  UNION { { q \in [1..k -> RequestPool] :
              \A i, j \in 1..k : i # j => q[i] # q[j] } : k \in 0..n }

\* The RouteWaypoint built for one request (lines 447-458); its id is
\* f"{req['id']}_pickup", its window pickup_time -/+ the pickup tolerance.
PickupWaypoint(req) ==
  [ id                   |-> <<req.id, "pickup">>,
    type                 |-> "pickup",
    at                   |-> req.pickup,
    passenger_id         |-> req.passenger_id,
    window_minutes       |-> 2 * pickup_tolerance_minutes,
    service_time_minutes |-> 2000,
    priority             |-> req.priority ]

\* Whether the conversion of a request raises (KeyError, ValueError).
ConversionRaises(requests) ==
  \E i \in 1..Len(requests) : requests[i].form # "ok"

\* The list returned when no request makes the conversion raise.
create_waypoints_from_requests(requests) ==
  [i \in 1..Len(requests) |-> PickupWaypoint(requests[i])]

\* The driver's position as the starting waypoint (lines 212-221).
DriverWaypoint(driver_at) ==
  [ id                   |-> <<"driver_start", "start">>,
    type                 |-> "start",
    at                   |-> driver_at,
    passenger_id         |-> "driver",
    window_minutes       |-> 60,
    service_time_minutes |-> 0,
    priority             |-> 1 ]

-----------------------------------------------------------------------------
(* Route metrics *)

RECURSIVE SumTo(_, _)
\* f[1] + ... + f[n]
SumTo(f, n) == IF n = 0 THEN 0 ELSE SumTo(f, n - 1) + f[n]

calculate_route_distance(waypoints) ==
  IF \E i \in 1..(Len(waypoints) - 1) :
         calculate_distance(waypoints[i].at, waypoints[i + 1].at) = NaN
    THEN NaN
    ELSE SumTo([i \in 1..(Len(waypoints) - 1) |->
                 calculate_distance(waypoints[i].at, waypoints[i + 1].at)],
               Len(waypoints) - 1)

\* Travel time of every leg plus the service time of every waypoint.
calculate_route_time(zs, waypoints) ==
  IF Len(waypoints) = 0 THEN 0
  ELSE
    SumTo([i \in 1..(Len(waypoints) - 1) |->
             calculate_base_travel_time(zs, waypoints[i].at, waypoints[i + 1].at,
                 calculate_distance(waypoints[i].at, waypoints[i + 1].at))
             + waypoints[i].service_time_minutes],
          Len(waypoints) - 1)
    + waypoints[Len(waypoints)].service_time_minutes

\* What the providers answer during one call: the traffic answer for a zone
\* name and the weather answer for a coordinate pair.
\*   "down"      both providers fail for every query (None)
\*   "extractor" both answer as MLAPIDataExtractor does (no 'delay_minutes',
\*               no 'condition' key)
\*   "uniform"   6 minutes of delay and cloudy weather everywhere
\*   "airport"   30 minutes of delay and a storm at the airport; the query
\*               for any other zone or place raises an exception
\*   "duration"  the traffic delay is a timedelta, the weather is unknown
Scenarios == {"down", "extractor", "uniform", "airport", "duration"}

TrafficAt(scenario, zone) ==
  CASE scenario = "down"      -> [kind |-> "none", delay |-> 0]
    [] scenario = "extractor" -> [kind |-> "no_key", delay |-> 0]
    [] scenario = "uniform"   -> [kind |-> "minutes", delay |-> 6]
    [] scenario = "airport"   -> IF zone = "airport"
                                   THEN [kind |-> "minutes", delay |-> 30]
                                   ELSE [kind |-> "raises", delay |-> 0]
    [] scenario = "duration"  -> [kind |-> "timedelta", delay |-> 6]

WeatherAt(scenario, place) ==
  CASE scenario = "down"      -> [kind |-> "none", condition |-> ""]
    [] scenario = "extractor" -> [kind |-> "no_key", condition |-> ""]
    [] scenario = "uniform"   -> [kind |-> "condition", condition |-> "cloudy"]
    [] scenario = "airport"   -> IF place = "airport"
                                   THEN [kind |-> "condition", condition |-> "storm"]
                                   ELSE [kind |-> "raises", condition |-> ""]
    [] scenario = "duration"  -> [kind |-> "condition", condition |-> "fog"]

\* Mean of the values of f over the indices in counted, 1.0 when none is.
MeanOr1(f, n, counted) ==
  LET count == Cardinality(counted)
  IN  IF count > 0
        THEN SumTo([i \in 1..n |-> IF i \in counted THEN f[i] ELSE 0], n) \div count
        ELSE 1000

\* A waypoint counts when the provider answers with data and the arithmetic
\* on its delay does not raise (1.0 + timedelta raises inside the try).
calculate_route_traffic_impact(zs, waypoints, scenario) ==
  LET n       == Len(waypoints)
      data(i) == TrafficAt(scenario, classify_location_to_zone(zs, waypoints[i].at))
  IN  MeanOr1([i \in 1..n |-> 1000 + (data(i).delay * 1000) \div 30], n,
              {i \in 1..n : data(i).kind \in {"no_key", "minutes"}})

\* weather_impacts of _calculate_route_weather_impact, in thousandths.
weather_impacts(condition) ==
  CASE condition \in {"clear", "sunny"} -> 1000
    [] condition = "partly_cloudy" -> 1050
    [] condition = "cloudy"        -> 1100
    [] condition = "overcast"      -> 1150
    [] condition = "mist"          -> 1200
    [] condition = "light_rain"    -> 1300
    [] condition = "rain"          -> 1500
    [] condition = "heavy_rain"    -> 1800
    [] condition = "snow"          -> 2000
    [] condition = "storm"         -> 2500
    [] OTHER                       -> 1000

calculate_route_weather_impact(waypoints, scenario) ==
  LET n       == Len(waypoints)
      data(i) == WeatherAt(scenario, waypoints[i].at)
  IN  MeanOr1([i \in 1..n |-> weather_impacts(ConditionOf(data(i)))], n,
              {i \in 1..n : data(i).kind \notin {"raises", "none"}})

IsStop(w) == w.type \in {"pickup", "dropoff"}

\* Variant of calculate_route_efficiency whose ideal distance counts every
\* leg, the one that starts at the 'start' waypoint included.
calculate_route_efficiency_CountsStartLeg(waypoints, distance, time) ==
  IF Len(waypoints) = 0 \/ distance = NaN \/ distance <= 0 \/ time <= 0 THEN 0
  ELSE IF \A i \in 1..Len(waypoints) : ~IsStop(waypoints[i]) THEN 1000
  ELSE
    LET ideal_distance      == (distance * 4) \div 5
        distance_efficiency == (ideal_distance * 1000) \div distance
        time_efficiency     == (ideal_distance * 2 * 1000) \div time
    IN  Max(0, Min(1000, (distance_efficiency * 600 + time_efficiency * 400) \div 1000))

\* 0.6 * distance efficiency + 0.4 * time efficiency, where the ideal distance
\* is 0.8 of every leg that does not start at the 'start' waypoint and the
\* ideal time 2 minutes per ideal mile.
calculate_route_efficiency(waypoints, distance, time) ==
  IF Len(waypoints) = 0 \/ (distance # NaN /\ distance <= 0) \/ time <= 0 THEN 0
  ELSE IF \A i \in 1..Len(waypoints) : ~IsStop(waypoints[i]) THEN 1000
  ELSE IF \E i \in 1..(Len(waypoints) - 1) :
            /\ waypoints[i].type # "start"
            /\ calculate_distance(waypoints[i].at, waypoints[i + 1].at) = NaN
    THEN \* the ideal distance and the efficiency are nan: min(1.0, nan) is 1.0
         1000
  ELSE
    LET n == Len(waypoints)
        ideal_distance ==
          SumTo([i \in 1..(n - 1) |->
                   IF waypoints[i].type = "start" THEN 0
                   ELSE (calculate_distance(waypoints[i].at, waypoints[i + 1].at) * 4) \div 5],
                n - 1)
        distance_efficiency == IF distance = NaN
                                 THEN \* distance > 0 is false
                                      0
                                 ELSE (ideal_distance * 1000) \div distance
        ideal_time          == ideal_distance * 2
        time_efficiency     == (ideal_time * 1000) \div time
        efficiency == (distance_efficiency * 600 + time_efficiency * 400) \div 1000
    IN  Max(0, Min(1000, efficiency))

\* pickups * (8.0 + 1.2 * distance + 0.5 * distance), rounded to cents.
estimate_route_earnings(waypoints, distance) ==
  LET pickups == Cardinality({i \in 1..Len(waypoints) : waypoints[i].type = "pickup"})
  IN  IF pickups = 0 THEN 0
      ELSE IF distance = NaN THEN NaN
      ELSE (pickups * (8000 + (distance * 17) \div 10) + 5) \div 10

\* Variant of calculate_route_confidence whose penalty for the number of
\* requests has no upper limit.
calculate_route_confidence_Uncapped(waypoints, num_requests) ==
  LET complexity_penalty  == (num_requests - 1) * 100
      time_window_penalty ==
        50 * Cardinality({i \in 1..Len(waypoints) :
                            IsStop(waypoints[i]) /\ waypoints[i].window_minutes < 10})
  IN  Max(300, Min(950, 800 - complexity_penalty - time_window_penalty))

\* Lines 826-849: 0.8 less min(0.3, 0.1 per request after the first) less 0.05
\* per stop whose time window is under 10 minutes, within [0.3, 0.95].
calculate_route_confidence(waypoints, num_requests) ==
  LET complexity_penalty  == Min(300, (num_requests - 1) * 100)
      time_window_penalty ==
        50 * Cardinality({i \in 1..Len(waypoints) :
                            IsStop(waypoints[i]) /\ waypoints[i].window_minutes < 10})
  IN  Max(300, Min(950, 800 - complexity_penalty - time_window_penalty))

-----------------------------------------------------------------------------
(* Route sequencing *)

\* seq without its i-th element
RemoveAt(seq, i) == SubSeq(seq, 1, i - 1) \o SubSeq(seq, i + 1, Len(seq))

RECURSIVE Concat(_)
\* the concatenation of a sequence of sequences
Concat(ss) == IF ss = << >> THEN << >> ELSE Head(ss) \o Concat(Tail(ss))

RECURSIVE permutations(_)
\* itertools.permutations: the orderings of seq by position, in
\* lexicographic order of the positions.
permutations(seq) ==
  IF seq = << >> THEN << << >> >>
  ELSE Concat([i \in 1..Len(seq) |->
                 LET rest == permutations(RemoveAt(seq, i))
                 IN  [k \in 1..Len(rest) |-> <<seq[i]>> \o rest[k]]])

RECURSIVE SmallRouteLoop(_, _, _, _, _, _)
SmallRouteLoop(zs, start_point, perms, k, best_sequence, best_total_time) ==
  IF k > Len(perms) THEN best_sequence
  ELSE LET sequence   == <<start_point>> \o perms[k]
           total_time == calculate_route_time(zs, sequence)
       IN  IF IsLess(total_time, best_total_time)
             THEN SmallRouteLoop(zs, start_point, perms, k + 1, sequence, total_time)
             ELSE SmallRouteLoop(zs, start_point, perms, k + 1,
                                 best_sequence, best_total_time)

\* Variant of optimize_small_route that keeps the input order (the default
\* of its except block).
optimize_small_route_InputOrder(zs, start_point, waypoints) ==
  <<start_point>> \o waypoints

\* Exhaustive search: the first permutation of strictly smallest route time.
optimize_small_route(zs, start_point, waypoints) ==
  Let(permutations(waypoints), LAMBDA perms :
      SmallRouteLoop(zs, start_point, perms, 1, <<start_point>> \o waypoints, Inf))

RECURSIVE NearestLoop(_, _, _, _, _)
\* The inner for loop of _optimize_large_route: the index in remaining of the
\* first waypoint at strictly smallest distance from current_point.
NearestLoop(current_point, remaining, i, nearest, min_distance) ==
  IF i > Len(remaining) THEN nearest
  ELSE LET distance == calculate_distance(current_point.at, remaining[i].at)
       IN  IF IsLess(distance, min_distance)
             THEN NearestLoop(current_point, remaining, i + 1, i, distance)
             ELSE NearestLoop(current_point, remaining, i + 1, nearest, min_distance)

\* list.remove(x): drops the first element equal to x.
Remove(seq, x) == RemoveAt(seq, CHOOSE i \in 1..Len(seq) :
                                  seq[i] = x /\ \A j \in 1..(i - 1) : seq[j] # x)

RECURSIVE LargeRouteLoop(_, _, _)
\* The while loop of _optimize_large_route: it ends when nothing remains, and
\* at the break of line 645 when the inner loop found no nearest waypoint.
LargeRouteLoop(sequence, remaining, current_point) ==
  IF remaining = << >> THEN sequence
  ELSE Let(NearestLoop(current_point, remaining, 1, 0, Inf), LAMBDA nearest :
         IF nearest = 0 THEN sequence
         ELSE Let(Remove(remaining, remaining[nearest]), LAMBDA rest :
                  LargeRouteLoop(Append(sequence, remaining[nearest]), rest,
                                 remaining[nearest])))

\* Nearest-neighbour heuristic from the driver's position.
optimize_large_route(start_point, waypoints) ==
  LargeRouteLoop(<<start_point>>, waypoints, start_point)

-----------------------------------------------------------------------------
(* optimize_pickup_route *)

\* Kinds of object passed as pending_requests: a list, None, or an array
\* object (numpy.ndarray of dicts) whose truth value raises ValueError when
\* it holds more than one element.
Containers == {"list", "ndarray", "None"}

\* Variant of EmergencyFallbackRoute that passes for the degraded route.
EmergencyFallbackRoute_AsFallback(driver_id) ==
  [ driver_id              |-> driver_id,
    waypoints              |-> << >>,
    total_distance_miles   |-> 0,
    total_time_minutes     |-> 0,
    total_passengers       |-> 0,
    route_efficiency_score |-> 600,
    estimated_earnings     |-> 0,
    traffic_impact         |-> 1200,
    weather_impact         |-> 1100,
    confidence_score       |-> 500,
    optimization_strategy  |-> "fallback" ]

\* Lines 880-895: the route returned when the fallback construction fails.
EmergencyFallbackRoute(driver_id) ==
  [ driver_id              |-> driver_id,
    waypoints              |-> << >>,
    total_distance_miles   |-> 0,
    total_time_minutes     |-> 0,
    total_passengers       |-> 0,
    route_efficiency_score |-> 0,
    estimated_earnings     |-> 0,
    traffic_impact         |-> 1000,
    weather_impact         |-> 1000,
    confidence_score       |-> 300,
    optimization_strategy  |-> "emergency_fallback" ]

\* Variant of FallbackTime that adds the service times of the waypoints.
FallbackTime_WithServiceTimes(total_distance, waypoints) ==
  (total_distance * 5) \div 2
  + SumTo([i \in 1..Len(waypoints) |-> waypoints[i].service_time_minutes], Len(waypoints))

\* Line 870: total_distance * 2.5, whatever the waypoints.
FallbackTime(total_distance, waypoints) == (total_distance * 5) \div 2

\* Lines 851-895: the route of the except block of optimize_pickup_route.
create_fallback_route(driver_id, requests) ==
  IF ConversionRaises(requests)
    THEN EmergencyFallbackRoute(driver_id)
    ELSE
      LET waypoints      == create_waypoints_from_requests(requests)
          total_distance == calculate_route_distance(waypoints)
      IN  [ driver_id              |-> driver_id,
            waypoints              |-> waypoints,
            total_distance_miles   |-> total_distance,
            total_time_minutes     |-> FallbackTime(total_distance, waypoints),
            total_passengers       |-> Len(requests),
            route_efficiency_score |-> 600,
            estimated_earnings     |-> Len(requests) * 1200,
            traffic_impact         |-> 1200,
            weather_impact         |-> 1100,
            confidence_score       |-> 500,
            optimization_strategy  |-> "fallback" ]

\* Variant of NoRequestsRoute that answers with the emergency route.
NoRequestsRoute_AsEmergency(driver_id) == EmergencyFallbackRoute(driver_id)

\* Lines 193-206: the route returned for an empty request list.
NoRequestsRoute(driver_id) ==
  [ driver_id              |-> driver_id,
    waypoints              |-> << >>,
    total_distance_miles   |-> 0,
    total_time_minutes     |-> 0,
    total_passengers       |-> 0,
    route_efficiency_score |-> 1000,
    estimated_earnings     |-> 0,
    traffic_impact         |-> 1000,
    weather_impact         |-> 1000,
    confidence_score       |-> 1000,
    optimization_strategy  |-> "no_requests" ]

\* Lines 223-235: the sequence and the strategy tag by the number of waypoints.
SequenceFor(zs, driver_waypoint, waypoints) ==
  IF Len(waypoints) = 1
    THEN [sequence |-> <<driver_waypoint>> \o waypoints, strategy |-> "direct_pickup"]
  ELSE IF Len(waypoints) <= 3
    THEN [sequence |-> optimize_small_route(zs, driver_waypoint, waypoints),
          strategy |-> "exhaustive_search"]
  ELSE [sequence |-> optimize_large_route(driver_waypoint, waypoints),
        strategy |-> "nearest_neighbor_heuristic"]

\* Variant of ReturnedWaypoints that keeps the driver's start in the route.
ReturnedWaypoints_WithStart(optimized_sequence) == optimized_sequence

\* Line 257: optimized_sequence[1:], the sequence without the driver's start.
ReturnedWaypoints(optimized_sequence) == Tail(optimized_sequence)

\* Variant of RouteMetrics in which the TypeError of a traffic delay that is
\* not a number escapes the helper: the call ends in its except block, which
\* returns the fallback figures and strategy 'fallback'.
RouteMetrics_UncaughtProviderFailure(zs, driver_id, num_requests, optimized_sequence, strategy, scenario) ==
  [ driver_id              |-> driver_id,
    waypoints              |-> Tail(optimized_sequence),
    total_distance_miles   |-> calculate_route_distance(optimized_sequence),
    total_time_minutes     |-> calculate_route_time(zs, optimized_sequence),
    total_passengers       |-> num_requests,
    route_efficiency_score |-> 600,
    estimated_earnings     |-> num_requests * 1200,
    traffic_impact         |-> 1200,
    weather_impact         |-> 1100,
    confidence_score       |-> 500,
    optimization_strategy  |-> IF scenario = "duration" THEN "fallback" ELSE strategy ]

\* Lines 237-268: the metrics of the sequence and the returned route.
RouteMetrics(zs, driver_id, num_requests, optimized_sequence, strategy, scenario) ==
  LET total_distance  == calculate_route_distance(optimized_sequence)
      total_time      == calculate_route_time(zs, optimized_sequence)
      traffic_impact  == calculate_route_traffic_impact(zs, optimized_sequence, scenario)
      weather_impact  == calculate_route_weather_impact(optimized_sequence, scenario)
      adjusted_time   == (((total_time * traffic_impact) \div 1000) * weather_impact) \div 1000
  IN  [ driver_id              |-> driver_id,
        waypoints              |-> ReturnedWaypoints(optimized_sequence),
        total_distance_miles   |-> total_distance,
        total_time_minutes     |-> adjusted_time,
        total_passengers       |-> num_requests,
        route_efficiency_score |->
            calculate_route_efficiency(optimized_sequence, total_distance, adjusted_time),
        estimated_earnings     |-> estimate_route_earnings(optimized_sequence, total_distance),
        traffic_impact         |-> traffic_impact,
        weather_impact         |-> weather_impact,
        confidence_score       |-> calculate_route_confidence(optimized_sequence, num_requests),
        optimization_strategy  |-> strategy ]

OptimizedRouteOf(zs, driver_id, driver_at, requests, scenario) ==
  Let(SequenceFor(zs, DriverWaypoint(driver_at), create_waypoints_from_requests(requests)),
      LAMBDA chosen :
        RouteMetrics(zs, driver_id, Len(requests), chosen.sequence, chosen.strategy, scenario))

\* bool(pending_requests) at line 191 raises for an array of several elements.
TruthValueRaises(container, requests) ==
  container = "ndarray" /\ Len(requests) > 1

optimize_pickup_route(zs, driver_id, driver_at, container, requests, scenario) ==
  IF container = "None"
    THEN \* line 188 takes len(pending_requests) before the try
         Raised("TypeError")
  ELSE IF TruthValueRaises(container, requests) \/
          (requests # << >> /\ ConversionRaises(requests))
    THEN Returned(create_fallback_route(driver_id, requests))
  ELSE IF requests = << >>
    THEN Returned(NoRequestsRoute(driver_id))
  ELSE Returned(OptimizedRouteOf(zs, driver_id, driver_at, requests, scenario))

-----------------------------------------------------------------------------
(* find_pool_ride_matches *)

\* self.max_pool_passengers of __init__
max_pool_passengers == 4

RECURSIVE combinations(_, _)
\* itertools.combinations: the k-element subsequences of seq, in
\* lexicographic order of the positions.
combinations(seq, k) ==
  IF k = 0 THEN << << >> >>
  ELSE IF Len(seq) < k THEN << >>
  ELSE Let(combinations(Tail(seq), k - 1), LAMBDA with :
           [c \in 1..Len(with) |-> <<Head(seq)>> \o with[c]])
       \o combinations(Tail(seq), k)

generate_passenger_combinations(requests, pool_size) == combinations(requests, pool_size)

\* The placeholder value Python calls None.
None == [none |-> TRUE]

\* Whether p['passenger_id'] raises KeyError for a passenger of the combination.
EvaluationRaises(passengers) ==
  \E i \in 1..Len(passengers) : passengers[i].form = "no_passenger_id"

\* The placeholder of lines 923-940: a match of score 0.8 for two passengers
\* or more.  match_id is "pool_" and the wall clock to the second.
evaluate_pool_compatibility(passengers, second) ==
  IF Len(passengers) >= 2
    THEN [ match_id            |-> <<"pool", second>>,
           driver_id           |-> "TBD",
           passengers          |-> [i \in 1..Len(passengers) |-> passengers[i].passenger_id],
           compatibility_score |-> 800 ]
    ELSE None

\* Line 304: match and match.compatibility_score >= 0.6
IsViable(match) == match # None /\ match.compatibility_score >= 600

\* Lines 297-305: every combination of every pool size, in order.
PoolCombinations(requests) ==
  Concat([k \in 1..(Min(max_pool_passengers + 1, Len(requests) + 1) - 2) |->
            generate_passenger_combinations(requests, k + 1)])

\* The clock second at which the c-th combination is evaluated: the second
\* changes after tick evaluations (never during the call when tick = 0).
SecondOf(c, tick) == IF tick > 0 /\ c > tick THEN 1 ELSE 0

RECURSIVE Insert(_, _)
\* sorted with m inserted after every element of a score >= its own
Insert(sorted, m) ==
  IF sorted = << >> THEN <<m>>
  ELSE IF Head(sorted).compatibility_score >= m.compatibility_score
    THEN <<Head(sorted)>> \o Insert(Tail(sorted), m)
    ELSE <<m>> \o sorted

RECURSIVE SortByScore(_)
\* list.sort(key = compatibility_score, reverse = True): descending and stable.
SortByScore(matches) ==
  IF matches = << >> THEN << >>
  ELSE Insert(SortByScore(SubSeq(matches, 1, Len(matches) - 1)), matches[Len(matches)])

\* seq[:k] of Python: a negative k drops the last -k elements.
SliceTo(seq, k) ==
  IF k >= 0 THEN SubSeq(seq, 1, Min(k, Len(seq)))
  ELSE SubSeq(seq, 1, Max(0, Len(seq) + k))

SelectSeqIndex(seq, keep) ==
  LET F[i \in 0..Len(seq)] ==
        IF i = 0 THEN << >>
        ELSE IF i \in keep THEN Append(F[i - 1], seq[i]) ELSE F[i - 1]
  IN  F[Len(seq)]

\* Variant of ViableMatches: the loop runs from pool size 1 and appends
\* whatever the evaluation returns, without the test of line 304.
ViableMatches_NoThreshold(requests, tick) ==
  Let(Concat([k \in 1..Min(max_pool_passengers, Len(requests)) |->
                generate_passenger_combinations(requests, k)]),
      LAMBDA combos :
        [c \in 1..Len(combos) |->
           evaluate_pool_compatibility(combos[c], SecondOf(c, tick))])

\* Lines 294-308 when no evaluation raises: the viable matches, best first.
ViableMatches(requests, tick) ==
  Let(PoolCombinations(requests), LAMBDA combos :
    Let([c \in 1..Len(combos) |-> evaluate_pool_compatibility(combos[c], SecondOf(c, tick))],
        LAMBDA evaluated :
          SortByScore(SelectSeqIndex(evaluated,
                        {c \in 1..Len(evaluated) : IsViable(evaluated[c])}))))

\* Line 311: pool_matches[:max_matches]
PoolMatchesOf(requests, max_matches, tick) ==
  SliceTo(ViableMatches(requests, tick), max_matches)

\* Variant of TooFewRequests that hands the requests back.
TooFewRequests_ReturnsInput(requests) == requests

\* Line 292: the result for fewer than two requests.
TooFewRequests(requests) == << >>

find_pool_ride_matches(container, requests, max_matches, tick) ==
  IF container = "None"
    THEN \* line 288 takes len(pending_requests) before the try
         Raised("TypeError")
  ELSE IF Len(requests) < 2
    THEN Returned(TooFewRequests(requests))
  ELSE IF EvaluationRaises(requests)
    THEN \* KeyError in a combination that holds the request: except returns []
         Returned(<< >>)
  ELSE Returned(PoolMatchesOf(requests, max_matches, tick))

-----------------------------------------------------------------------------
(* optimize_multi_stop_route *)

\* The objects a caller may put in the waypoint list.  form "ok" is a
\* RouteWaypoint; "bad_window" is one whose time_window_end is not a datetime
\* (None); "no_attributes" is an object that is no RouteWaypoint at all.
\* deadline_hours is the time from now until time_window_end, in hours.
Stop(id, type, at, passenger_id, priority, deadline_hours, form) ==
  [ id |-> id, type |-> type, at |-> at, passenger_id |-> passenger_id,
    window_minutes |-> 10, service_time_minutes |-> 2000, priority |-> priority,
    deadline_hours |-> deadline_hours, form |-> form ]

WaypointPool ==
  { Stop("w1", "pickup",  "airport",     "pass_1", 1, 1, "ok"),
    Stop("w2", "pickup",  "business",    "pass_2", 3, 2, "ok"),
    Stop("w3", "dropoff", "residential", "pass_1", 1, 3, "ok"),
    Stop("w4", "pickup",  "retail",      "pass_4", 2, 1, "bad_window"),
    Stop("w5", "none",    NonNumeric,    "none",   0, 0, "no_attributes"),
    Stop("w6", "pickup",  "downtown",    "pass_6", 1, 3, "ok") }

\* The lists of at most n waypoints; an object may be listed more than once.
WaypointLists(n) == UNION { [1..k -> WaypointPool] : k \in 0..n }

Pickups(waypoints) ==
  SelectSeqIndex(waypoints, {i \in 1..Len(waypoints) : waypoints[i].type = "pickup"})

RECURSIVE ArgMin(_, _, _, _, _)
\* min(remaining, key = distance from current): the index of the first
\* element of smallest key.
ArgMin(current, remaining, i, best, best_distance) ==
  IF i > Len(remaining) THEN best
  ELSE LET distance == calculate_distance(current.at, remaining[i].at)
       IN  IF IsLess(distance, best_distance)
             THEN ArgMin(current, remaining, i + 1, i, distance)
             ELSE ArgMin(current, remaining, i + 1, best, best_distance)

RECURSIVE NeighborLoop(_, _, _)
NeighborLoop(sequence, remaining, current) ==
  IF remaining = << >> THEN sequence
  ELSE Let(remaining[ArgMin(current, remaining, 1, 0, Inf)], LAMBDA nearest :
         Let(Remove(remaining, nearest), LAMBDA rest :
             NeighborLoop(Append(sequence, nearest), rest, nearest)))

\* Lines 953-973 for objects that have coordinates.
nearest_neighbor_sequence(waypoints) ==
  IF waypoints = << >> THEN << >>
  ELSE NeighborLoop(<<Head(waypoints)>>, Tail(waypoints), Head(waypoints))

\* _tsp_optimization and _heuristic_optimization both return the
\* nearest-neighbour sequence.
tsp_optimization(waypoints) == nearest_neighbor_sequence(waypoints)

heuristic_optimization(waypoints) == nearest_neighbor_sequence(waypoints)

RECURSIVE InsertByPriority(_, _)
InsertByPriority(sorted, w) ==
  IF sorted = << >> THEN <<w>>
  ELSE IF Head(sorted).priority >= w.priority
    THEN <<Head(sorted)>> \o InsertByPriority(Tail(sorted), w)
    ELSE <<w>> \o sorted

RECURSIVE SortByPriority(_)
\* sorted(pickups, key = priority, reverse = True): descending and stable.
SortByPriority(ws) ==
  IF ws = << >> THEN << >>
  ELSE InsertByPriority(SortByPriority(SubSeq(ws, 1, Len(ws) - 1)), ws[Len(ws)])

\* w in keep_pickups: equality of dataclass instances is equality of fields.
IsIn(w, list) == \E i \in 1..Len(list) : list[i] = w

validate_route_constraints(waypoints, capacity) ==
  Let(Pickups(waypoints), LAMBDA pickups :
    IF Len(pickups) <= capacity THEN waypoints
    ELSE Let(SliceTo(SortByPriority(pickups), capacity), LAMBDA keep_pickups :
           SelectSeqIndex(waypoints,
             {i \in 1..Len(waypoints) :
                waypoints[i].type # "pickup" \/ IsIn(waypoints[i], keep_pickups)})))

\* Whether an attribute access on a listed object raises AttributeError.
LacksAttributes(waypoints) ==
  \E i \in 1..Len(waypoints) : waypoints[i].form = "no_attributes"

\* Whether lines 418-420 raise: with more pickups than the capacity,
\* _prioritize_waypoints subtracts datetime.now() from every pickup's
\* time_window_end.  (The list it returns is bound to the local name pickups
\* and not read again.)
PrioritizeRaises(waypoints, vehicle_capacity) ==
  Let(Pickups(waypoints), LAMBDA pickups :
    /\ Len(pickups) > vehicle_capacity
    /\ \E i \in 1..Len(pickups) : pickups[i].form = "bad_window")

optimize_multi_stop_route(container, waypoints, vehicle_capacity) ==
  IF container = "None"
    THEN \* line 407 takes len(waypoints) before the try
         Raised("TypeError")
  ELSE IF Len(waypoints) <= 1
    THEN Returned(waypoints)
  ELSE IF LacksAttributes(waypoints)
    THEN \* w.type raises in the try, then current.latitude in the fallback
         Raised("AttributeError")
  ELSE IF PrioritizeRaises(waypoints, vehicle_capacity)
    THEN Returned(nearest_neighbor_sequence(waypoints))
  ELSE Returned(validate_route_constraints(
                  IF Len(waypoints) <= 8 THEN tsp_optimization(waypoints)
                                         ELSE heuristic_optimization(waypoints),
                  vehicle_capacity))

\* Variant of WaypointsAfterNearestNeighbor for `remaining = waypoints`:
\* the removals of line 970 then empty the caller's list.
WaypointsAfterNearestNeighbor_Aliased(waypoints) == << >>

\* The caller's list after _nearest_neighbor_sequence.  Line 962,
\* remaining = waypoints[1:], makes a new list: the removals of line 970
\* empty that one; sorted() at lines 983 and 995 builds new lists as well.
WaypointsAfterNearestNeighbor(waypoints) == waypoints

\* The caller's list after optimize_multi_stop_route: untouched before the
\* sequencing (lines 407-420 read it), then as the sequencing leaves it.
WaypointsAfterCall(container, waypoints) ==
  IF container = "None" \/ Len(waypoints) <= 1 THEN waypoints
  ELSE WaypointsAfterNearestNeighbor(waypoints)

\* The caller's pending_requests after optimize_pickup_route or
\* find_pool_ride_matches: both only iterate over it (lines 443, 297-298, 921);
\* _optimize_large_route removes from a copy of its own waypoint list
\* (line 623).
RequestsAfterCall(requests) == requests

-----------------------------------------------------------------------------
(* The calls *)

\* Departure hours: night, morning rush, daytime, evening rush.
Hours == {3, 8, 12, 18}

Coordinates == PointSet \cup {NonNumeric}

Init ==
  /\ zones = DefaultZones
  /\ op = "idle"
  /\ args = << >>
  /\ outcome = "none"
  /\ result = << >>

PredictEta ==
  /\ op = "idle"
  /\ \E from \in Coordinates, to \in Coordinates, hour \in Hours,
     traffic \in TrafficResponses, weather \in WeatherResponses :
    \E r \in {predict_eta(zones, from, to, hour, traffic, weather)} :
        /\ op' = "predict_eta"
        /\ args' = [from |-> from, to |-> to, hour |-> hour,
                    traffic |-> traffic, weather |-> weather,
                    traffic_queries |-> ProviderQueries(traffic),
                    weather_queries |-> ProviderQueries(weather)]
        /\ outcome' = r.outcome
        /\ result' = r.value
        /\ UNCHANGED zones

\* load_model: self.zones = model_data.get('zones', self.zones)
LoadModel ==
  /\ op = "idle"
  /\ \E table \in ZoneTables :
    /\ zones' = table
    /\ op' = "load_model"
    /\ args' = << >>
    /\ outcome' = "returned"
    /\ result' = TRUE

\* The caller takes the value (or the exception) of the finished call.
Return ==
  /\ op # "idle"
  /\ op' = "idle"
  /\ args' = << >>
  /\ outcome' = "none"
  /\ result' = << >>
  /\ UNCHANGED zones

\* The drivers of the calls: one downtown, one whose position is not a number,
\* one whose position is float('nan').
Drivers == { [id |-> "driver_1", at |-> "downtown"],
             [id |-> "driver_2", at |-> NonNumeric],
             [id |-> "driver_3", at |-> NotANumber] }

\* The objects passed as pending_requests: None, lists, and arrays (an empty
\* array is left out: its truth value depends on the numpy version).
PendingRequests ==
  {[container |-> "None", requests |-> << >>]}
  \cup {[container |-> "list", requests |-> q] : q \in RequestLists(MaxRequests)}
  \cup {[container |-> "ndarray", requests |-> q] :
          q \in RequestLists(MaxRequests) \ {<< >>}}

OptimizePickupRoute ==
  /\ op = "idle"
  /\ \E driver \in Drivers, pending \in PendingRequests, scenario \in Scenarios :
    \E r \in {optimize_pickup_route(zones, driver.id, driver.at,
                                    pending.container, pending.requests, scenario)} :
        /\ op' = "optimize_pickup_route"
        /\ args' = [driver_id |-> driver.id, driver_at |-> driver.at,
                    container |-> pending.container,
                    pending_requests |-> pending.requests,
                    pending_requests_after |-> RequestsAfterCall(pending.requests),
                    scenario |-> scenario]
        /\ outcome' = r.outcome
        /\ result' = r.value
        /\ UNCHANGED zones

\* Values of max_matches: negative, zero, fewer than the matches, the default.
MaxMatchesValues == {-1, 0, 2, 5}

\* After how many evaluations the clock's second changes (0: not in the call).
Ticks == {0, 2}

FindPoolRideMatches ==
  /\ op = "idle"
  /\ \E pending \in {q \in PendingRequests : q.container # "ndarray"},
        max_matches \in MaxMatchesValues, tick \in Ticks :
      \E r \in {find_pool_ride_matches(pending.container, pending.requests,
                                       max_matches, tick)} :
        /\ op' = "find_pool_ride_matches"
        /\ args' = [container |-> pending.container,
                    pending_requests |-> pending.requests,
                    pending_requests_after |-> RequestsAfterCall(pending.requests),
                    max_matches |-> max_matches, tick |-> tick]
        /\ outcome' = r.outcome
        /\ result' = r.value
        /\ UNCHANGED zones

\* Values of vehicle_capacity.
Capacities == {0, 1, 2}

WaypointArguments ==
  {[container |-> "None", waypoints |-> << >>]}
  \cup {[container |-> "list", waypoints |-> q] : q \in WaypointLists(MaxWaypoints)}

OptimizeMultiStopRoute ==
  /\ op = "idle"
  /\ \E given \in WaypointArguments, vehicle_capacity \in Capacities :
      \E r \in {optimize_multi_stop_route(given.container, given.waypoints,
                                          vehicle_capacity)} :
        /\ op' = "optimize_multi_stop_route"
        /\ args' = [container |-> given.container, waypoints |-> given.waypoints,
                    waypoints_after |-> WaypointsAfterCall(given.container,
                                                           given.waypoints),
                    vehicle_capacity |-> vehicle_capacity]
        /\ outcome' = r.outcome
        /\ result' = r.value
        /\ UNCHANGED zones

Next ==
  \/ PredictEta
  \/ OptimizeMultiStopRoute
  \/ FindPoolRideMatches
  \/ OptimizePickupRoute
  \/ LoadModel
  \/ Return

Spec == Init /\ [][Next]_vars

(***************************************************************************)
(* The properties.  A call's arguments are in args, what it gave back in   *)
(* outcome ("returned" or "raised") and result.                            *)
(***************************************************************************)

Calls == {"predict_eta", "optimize_pickup_route", "find_pool_ride_matches",
          "optimize_multi_stop_route"}

\* C1: every one of the four public operations returns a value and never
\* raises, whatever it is given: None as the list, malformed requests,
\* coordinates that are not numbers, waypoints without attributes.
C1_NoCallRaises == op \in Calls => outcome = "returned"

\* C2: whenever optimize_multi_stop_route returns, on whichever path, the
\* list it returns holds at most vehicle_capacity pickups.
C2_PickupsWithinCapacity ==
  (op = "optimize_multi_stop_route" /\ outcome = "returned")
    => Len(Pickups(result)) <= args.vehicle_capacity

ServiceTime(waypoints) ==
  SumTo([i \in 1..Len(waypoints) |-> waypoints[i].service_time_minutes],
        Len(waypoints))

\* C3: every route optimize_pickup_route returns, of whichever strategy, has
\* a total time of at least the service times of its waypoints and a total
\* distance of at least zero.
C3_TimeCoversServiceTimes ==
  (op = "optimize_pickup_route" /\ outcome = "returned")
    => /\ result.total_time_minutes >= ServiceTime(result.waypoints)
       /\ result.total_distance_miles >= 0

C5_EstimateIsSum ==
  (op = "predict_eta" /\ outcome = "returned")
    => result.estimated_time_minutes
         = result.base_time_minutes + result.traffic_delay_minutes
           + result.weather_delay_minutes

\* A prediction between two different places in a storm at a rush hour: the
\* three terms of the sum are all positive.
C5_Witness ==
  /\ op = "predict_eta" /\ outcome = "returned"
  /\ args.from # args.to
  /\ args.weather.kind = "condition" /\ args.weather.condition = "storm"
  /\ args.hour = 8
  /\ result.base_time_minutes > 0
  /\ result.traffic_delay_minutes > 0
  /\ result.weather_delay_minutes > 0

\* C6: every match find_pool_ride_matches returns is a match (never None) of
\* compatibility score at least 0.6.
C6_MatchesAboveThreshold ==
  (op = "find_pool_ride_matches" /\ outcome = "returned")
    => \A i \in 1..Len(result) :
         /\ result[i] # None
         /\ result[i].compatibility_score >= 600

\* Three requests, of which every pair and the triple are evaluated: four
\* matches returned.
C6_Witness ==
  /\ op = "find_pool_ride_matches" /\ outcome = "returned"
  /\ Len(args.pending_requests) = 3
  /\ Len(result) = 4
  /\ \A i \in 1..Len(result) : result[i].compatibility_score >= 600

\* The combinations that qualify: those evaluated to a match of score at
\* least 0.6, best first.
Qualifying(requests, tick) ==
  IF Len(requests) < 2 \/ EvaluationRaises(requests) THEN << >>
  ELSE ViableMatches(requests, tick)

\* C7: for every request list and every max_matches K, the result is the K
\* best qualifying matches in descending order of score: it has
\* min(K, number of qualifying combinations) entries (none for a K below 0).
C7_TopK ==
  (op = "find_pool_ride_matches" /\ outcome = "returned")
    => LET qualifying == Qualifying(args.pending_requests, args.tick)
           n == Max(0, Min(args.max_matches, Len(qualifying)))
       IN  /\ Len(result) = n
           /\ result = SubSeq(qualifying, 1, n)
           /\ \A i \in 1..(Len(result) - 1) :
                result[i].compatibility_score >= result[i + 1].compatibility_score

\* C8: with no request or one request, find_pool_ride_matches returns the
\* empty list, whatever max_matches is.
C8_FewRequestsNoMatches ==
  (op = "find_pool_ride_matches" /\ args.container = "list"
     /\ Len(args.pending_requests) < 2)
    => outcome = "returned" /\ result = << >>

\* One request and a negative max_matches.
C8_Witness ==
  /\ op = "find_pool_ride_matches" /\ args.container = "list"
  /\ Len(args.pending_requests) = 1
  /\ args.max_matches < 0
  /\ outcome = "returned" /\ result = << >>

\* C9: with an empty request list, optimize_pickup_route returns the route of
\* no waypoints, distance 0, time 0, efficiency 1.0, confidence 1.0 and
\* strategy 'no_requests', whoever the driver and wherever they are.
C9_NoRequestsRoute ==
  (op = "optimize_pickup_route" /\ args.container = "list"
     /\ args.pending_requests = << >>)
    => /\ outcome = "returned"
       /\ result.driver_id = args.driver_id
       /\ result.waypoints = << >>
       /\ result.total_distance_miles = 0
       /\ result.total_time_minutes = 0
       /\ result.route_efficiency_score = 1000
       /\ result.confidence_score = 1000
       /\ result.optimization_strategy = "no_requests"

\* The empty list for the driver whose position is not a number.
C9_Witness ==
  /\ op = "optimize_pickup_route" /\ args.container = "list"
  /\ args.pending_requests = << >>
  /\ args.driver_at = NonNumeric
  /\ outcome = "returned"
  /\ result.optimization_strategy = "no_requests"

CheapestFirstPermutation(zs, driver_at, requests) ==
  LET perms == permutations(create_waypoints_from_requests(requests))
      cost  == [k \in 1..Len(perms) |->
                  calculate_route_time(zs, <<DriverWaypoint(driver_at)>> \o perms[k])]
      first == CHOOSE k \in 1..Len(perms) :
                 /\ \A j \in 1..Len(perms) : cost[k] <= cost[j]
                 /\ \A j \in 1..(k - 1) : cost[j] > cost[k]
  IN  perms[first]

\* C11: a route of strategy 'exhaustive_search' comes from 2 or 3 requests
\* and orders the pickups in the permutation of minimal total cost (travel
\* times from the driver on plus service times) over all N! permutations;
\* among several of minimal cost it is the one generated first.
C11_ExhaustiveSearchIsFirstMinimum ==
  (op = "optimize_pickup_route" /\ outcome = "returned"
     /\ result.optimization_strategy = "exhaustive_search")
    => /\ Len(args.pending_requests) \in {2, 3}
       /\ result.waypoints
            = CheapestFirstPermutation(zones, args.driver_at, args.pending_requests)

\* Three requests, two of them at the same place (so two permutations tie),
\* returned in another order than given.
C11_Witness ==
  /\ op = "optimize_pickup_route" /\ outcome = "returned"
  /\ result.optimization_strategy = "exhaustive_search"
  /\ Len(args.pending_requests) = 3
  /\ \E i, j \in 1..3 : i # j /\ args.pending_requests[i].pickup = args.pending_requests[j].pickup
  /\ result.waypoints # create_waypoints_from_requests(args.pending_requests)

\* What the call of the state would have returned had the providers been
\* down: same engine, same driver, same requests.
WithProvidersDown ==
  optimize_pickup_route(zones, args.driver_id, args.driver_at, args.container,
                        args.pending_requests, "down").value

\* C12: two calls of optimize_pickup_route with the same driver position, the
\* same requests in the same order and the same zone table return the same
\* waypoint order and the same strategy: neither depends on what the traffic
\* and weather providers answer (the clock is read for the timestamp and the
\* driver's window only, which no ordering reads).
C12_OrderingIndependentOfProviders ==
  (op = "optimize_pickup_route" /\ outcome = "returned")
    => /\ result.waypoints = WithProvidersDown.waypoints
       /\ result.optimization_strategy = WithProvidersDown.optimization_strategy

\* A call under answering providers (delay and storm at the airport) that put
\* three pickups in another order than given, with a time the providers made
\* longer.
C12_Witness ==
  /\ op = "optimize_pickup_route" /\ outcome = "returned"
  /\ args.scenario = "airport"
  /\ Len(args.pending_requests) = 3
  /\ result.waypoints # create_waypoints_from_requests(args.pending_requests)
  /\ result.total_time_minutes > WithProvidersDown.total_time_minutes
  /\ result.waypoints = WithProvidersDown.waypoints

\* Whether the try block of optimize_pickup_route ended in an exception that
\* the conversion of the requests did not raise.
RaisedBesideConversion ==
  /\ TruthValueRaises(args.container, args.pending_requests)
  /\ ~ConversionRaises(args.pending_requests)

C14_EmergencyFallback ==
  (op = "optimize_pickup_route" /\ outcome = "returned")
    => /\ (result.optimization_strategy = "emergency_fallback")
            <=> ConversionRaises(args.pending_requests)
       /\ ConversionRaises(args.pending_requests)
            => result.optimization_strategy # "fallback"
       /\ result.optimization_strategy = "emergency_fallback"
            => /\ result.waypoints = << >>
               /\ result.total_passengers = 0
               /\ result.total_distance_miles = 0
               /\ result.total_time_minutes = 0
               /\ result.confidence_score = 300

\* Two requests in a list, the second without passenger_id: the conversion
\* raises in the try block and again in the except block.
C14_Witness ==
  /\ op = "optimize_pickup_route" /\ outcome = "returned"
  /\ args.container = "list"
  /\ Len(args.pending_requests) = 2
  /\ args.pending_requests[1].form = "ok"
  /\ args.pending_requests[2].form = "no_passenger_id"
  /\ result.optimization_strategy = "emergency_fallback"
  /\ result.waypoints = << >>

-----------------------------------------------------------------------------
(***************************************************************************)
(* load_model while a call runs.  The engine takes no lock and no call     *)
(* keeps a reference to the table it started with: every helper reads      *)
(* self.zones again.  Here predict_eta is taken one read of self.zones at  *)
(* a time (outcome holds the line the call is at, result its locals and    *)
(* the tables it has read so far), and load_model of another thread may    *)
(* rebind self.zones between any two of them.                              *)
(***************************************************************************)

PredictEtaLocals ==
  [from_zone |-> "", to_zone |-> "", from_speed |-> 0, to_speed |-> 0,
   traffic_zone |-> "", base_time |-> 0, read |-> << >>]

HotSwapInit ==
  /\ zones = DefaultZones
  /\ op = "idle"
  /\ args = << >>
  /\ outcome = "none"
  /\ result = << >>

\* predict_eta is called: line 346 computes the distance, line 347 enters
\* _calculate_base_travel_time.
BeginPredictEta ==
  /\ op = "idle"
  /\ \E from \in PointSet, to \in PointSet :
       args' = [from |-> from, to |-> to]
  /\ op' = "predict_eta"
  /\ outcome' = "line_488"
  /\ result' = PredictEtaLocals
  /\ UNCHANGED zones

\* Line 488: from_zone = self._classify_location_to_zone(from_lat, from_lng)
ClassifyFrom ==
  /\ op = "predict_eta" /\ outcome = "line_488"
  /\ result' = [result EXCEPT !.from_zone = classify_location_to_zone(zones, args.from),
                              !.read = Append(@, zones)]
  /\ outcome' = "line_489"
  /\ UNCHANGED <<zones, op, args>>

\* Line 489: to_zone = self._classify_location_to_zone(to_lat, to_lng)
ClassifyTo ==
  /\ op = "predict_eta" /\ outcome = "line_489"
  /\ result' = [result EXCEPT !.to_zone = classify_location_to_zone(zones, args.to),
                              !.read = Append(@, zones)]
  /\ outcome' = "line_492"
  /\ UNCHANGED <<zones, op, args>>

\* Line 492: from_speed = self.zones.get(from_zone, {}).get('avg_speed_mph', 30)
LookupFromSpeed ==
  /\ op = "predict_eta" /\ outcome = "line_492"
  /\ result' = [result EXCEPT !.from_speed = ZoneSpeed(zones, result.from_zone),
                              !.read = Append(@, zones)]
  /\ outcome' = "line_493"
  /\ UNCHANGED <<zones, op, args>>

\* Lines 493-504: to_speed = self.zones.get(to_zone, {}).get('avg_speed_mph', 30)
\* and the travel time at the mean of the two speeds.
LookupToSpeed ==
  /\ op = "predict_eta" /\ outcome = "line_493"
  /\ LET to_speed == ZoneSpeed(zones, result.to_zone)
         distance == calculate_distance(args.from, args.to)
     IN  result' = [result EXCEPT
                      !.to_speed = to_speed,
                      !.base_time = Max(1000, (distance * 120)
                                                \div (result.from_speed + to_speed)),
                      !.read = Append(@, zones)]
  /\ outcome' = "line_525"
  /\ UNCHANGED <<zones, op, args>>

\* Line 525 (_get_traffic_delay, called at line 350):
\* from_zone = self._classify_location_to_zone(from_lat, from_lng)
ClassifyForTraffic ==
  /\ op = "predict_eta" /\ outcome = "line_525"
  /\ result' = [result EXCEPT !.traffic_zone = classify_location_to_zone(zones, args.from),
                              !.read = Append(@, zones)]
  /\ outcome' = "line_378"
  /\ UNCHANGED <<zones, op, args>>

\* Lines 378-390: the prediction is returned.
EndPredictEta ==
  /\ op = "predict_eta" /\ outcome = "line_378"
  /\ op' = "idle"
  /\ args' = << >>
  /\ outcome' = "none"
  /\ result' = << >>
  /\ UNCHANGED zones

\* Line 1039 in another thread: self.zones = model_data.get('zones', self.zones)
HotSwapZones ==
  /\ \E table \in ZoneTables : zones' = table
  /\ UNCHANGED <<op, args, outcome, result>>

HotSwapNext ==
  \/ BeginPredictEta
  \/ ClassifyFrom
  \/ ClassifyTo
  \/ LookupFromSpeed
  \/ LookupToSpeed
  \/ ClassifyForTraffic
  \/ EndPredictEta
  \/ HotSwapZones

SpecHotSwap == HotSwapInit /\ [][HotSwapNext]_vars

\* C15: with load_model interleaved with a running call, every zone
\* classification and every speed lookup of that call reads one and the same
\* zone table, and a speed is never looked up in another table than the one
\* that gave the zone's name.
C15_OneTablePerCall ==
  op = "predict_eta"
    => \A i, j \in 1..Len(result.read) : result.read[i] = result.read[j]

C17_ScoresInUnitInterval ==
  /\ (op = "optimize_pickup_route" /\ outcome = "returned")
       => /\ result.route_efficiency_score \in 0..1000
          /\ result.confidence_score \in 0..1000
  /\ (op = "predict_eta" /\ outcome = "returned")
       => result.confidence_score \in 0..1000

\* A prediction over more than 15 miles at a rush hour with a traffic delay
\* and a storm: the penalties would take the confidence below 0.3, where the
\* clip holds it.
C17_Witness ==
  /\ op = "predict_eta" /\ outcome = "returned"
  /\ calculate_distance(args.from, args.to) > 15000
  /\ result.traffic_delay_minutes >= 6000
  /\ result.weather_delay_minutes >= 2000
  /\ result.confidence_score = 300


\* C18: a route returned with strategy 'nearest_neighbor_heuristic' holds every
\* waypoint of the request list, in the greedy order: each next waypoint is,
\* among those not yet placed, at minimum distance from the current position
\* (the driver's position at first), the earliest of the input list among ties.
C18_NearestNeighborPlacesEveryWaypoint ==
  (op = "optimize_pickup_route" /\ outcome = "returned"
     /\ result.optimization_strategy = "nearest_neighbor_heuristic") =>
    LET waypoints == create_waypoints_from_requests(args.pending_requests)
        n         == Len(waypoints)
        From(order, k) == IF k = 1 THEN args.driver_at ELSE waypoints[order[k - 1]].at
    IN  \E order \in [1..n -> 1..n] :
          /\ \A i, j \in 1..n : i # j => order[i] # order[j]
          /\ result.waypoints = [k \in 1..n |-> waypoints[order[k]]]
          /\ \A k \in 1..n : \A j \in (k + 1)..n :
                LET dk == calculate_distance(From(order, k), waypoints[order[k]].at)
                    dj == calculate_distance(From(order, k), waypoints[order[j]].at)
                IN  dk # NaN /\ (dj = NaN \/ dk < dj \/ (dk = dj /\ order[k] < order[j]))


\* The priority score of _prioritize_waypoints: priority * 10 minus the hours
\* until time_window_end.
PriorityScore(w) == w.priority * 10 - w.deadline_hours

\* C19: when optimize_multi_stop_route receives more pickups than
\* vehicle_capacity, the pickups of the returned sequence are exactly the
\* vehicle_capacity pickups of highest priority score, every other pickup being
\* absent.  Stated for a positive capacity and lists of well-formed waypoints,
\* each listed once.
C19_PickupsOfHighestScore ==
  (/\ op = "optimize_multi_stop_route" /\ outcome = "returned"
   /\ \A i \in 1..Len(args.waypoints) : args.waypoints[i].form = "ok"
   /\ \A i, j \in 1..Len(args.waypoints) :
         i # j => args.waypoints[i] # args.waypoints[j]
   /\ args.vehicle_capacity >= 1
   /\ Len(Pickups(args.waypoints)) > args.vehicle_capacity) =>
    LET given == {args.waypoints[i] : i \in 1..Len(args.waypoints)}
        kept  == {w \in given : w.type = "pickup" /\ IsIn(w, result)}
        left  == {w \in given : w.type = "pickup" /\ ~IsIn(w, result)}
    IN  /\ Cardinality(kept) = args.vehicle_capacity
        /\ \A w \in kept, v \in left : PriorityScore(w) >= PriorityScore(v)


-----------------------------------------------------------------------------
(***************************************************************************)
(* The confidence of routes of up to MaxRouteRequests requests, for an     *)
(* engine whose pickup tolerance is the one of __init__ or one taken from  *)
(* a model file by load_model (line 1044).  A behaviour starts with the    *)
(* engine so configured and the arguments of one call of                   *)
(* optimize_pickup_route in args; the call is its only step.               *)
(***************************************************************************)

\* The largest number of requests of these calls.
MaxRouteRequests == 8

\* Values of self.pickup_tolerance_minutes: the time windows of the pickups
\* are 6, 10 and 16 minutes wide.
Tolerances == {3, pickup_tolerance_minutes, 8}

\* The n requests of a call, all well formed, at the zone centroids in turn.
RouteRequests(n) ==
  [i \in 1..n |->
     [id |-> "req_" \o ToString(i), passenger_id |-> "pass_" \o ToString(i),
      pickup |-> Points[((i - 1) % 5) + 1], priority |-> 1, form |-> "ok"]]

\* Lines 452-453: the window is pickup_time -/+ self.pickup_tolerance_minutes.
WaypointsWithTolerance(requests, tolerance) ==
  [i \in 1..Len(requests) |->
     [PickupWaypoint(requests[i]) EXCEPT !.window_minutes = 2 * tolerance]]

ConfiguredInit ==
  /\ zones = DefaultZones
  /\ op = "idle"
  /\ args \in [ driver_id : {"driver_1"},
                driver_at : {d.at : d \in Drivers},
                num_requests : 1..MaxRouteRequests,
                pickup_tolerance_minutes : Tolerances,
                scenario : Scenarios ]
  /\ outcome = "none"
  /\ result = << >>

\* optimize_pickup_route on its normal path (lines 209-268).
OptimizeConfiguredRoute ==
  /\ op = "idle"
  /\ \E r \in {Let(SequenceFor(zones, DriverWaypoint(args.driver_at),
                       WaypointsWithTolerance(RouteRequests(args.num_requests),
                                              args.pickup_tolerance_minutes)),
                 LAMBDA chosen :
                   RouteMetrics(zones, args.driver_id, args.num_requests,
                                chosen.sequence, chosen.strategy, args.scenario))} :
       /\ op' = "optimize_pickup_route"
       /\ outcome' = "returned"
       /\ result' = r
  /\ UNCHANGED <<zones, args>>

SpecConfigured == ConfiguredInit /\ [][OptimizeConfiguredRoute]_vars

\* The pickups of a returned route whose time window is narrower than 10 minutes.
NarrowWindows(route) ==
  Cardinality({i \in 1..Len(route.waypoints) :
                 route.waypoints[i].type = "pickup"
                 /\ route.waypoints[i].window_minutes < 10})

Clip(x, lo, hi) == Max(lo, Min(hi, x))

\* C20 as stated: a route of the normal path from N requests, k of its pickups
\* having a time window narrower than 10 minutes, has confidence
\* clip(0.8 - 0.1 * (N - 1) - 0.05 * k, 0.3, 0.95).
C20_ConfidenceUncapped ==
  op = "optimize_pickup_route" =>
    result.confidence_score
      = Clip(800 - 100 * (args.num_requests - 1) - 50 * NarrowWindows(result), 300, 950)

\* C20, amended: the penalty for the number of requests is at most 0.3, so the
\* confidence is clip(0.8 - min(0.3, 0.1 * (N - 1)) - 0.05 * k, 0.3, 0.95).
C20_ConfidenceCapped ==
  op = "optimize_pickup_route" =>
    result.confidence_score
      = Clip(800 - Min(300, 100 * (args.num_requests - 1)) - 50 * NarrowWindows(result),
             300, 950)

\* A route from five requests or more, none with a narrow window: 0.5.
C20_Witness ==
  /\ op = "optimize_pickup_route"
  /\ args.num_requests >= 5
  /\ Len(result.waypoints) = args.num_requests
  /\ NarrowWindows(result) = 0
  /\ result.confidence_score = 500


-----------------------------------------------------------------------------
\* Whether the finished call is a predict_eta that returned from its try block.
NormalPathEta ==
  /\ op = "predict_eta" /\ outcome = "returned"
  /\ result.factors # <<"Fallback estimation">>

\* C21 as stated: the confidence of a normal-path ETA is
\* max(0.3, clip(1 - d/20, 0.3, 0.95) - min(0.3, t/20) - min(0.2, w/10)).
C21_ConfidenceOfClippedBase ==
  NormalPathEta =>
    LET d == calculate_distance(args.from, args.to)
        t == result.traffic_delay_minutes
        w == result.weather_delay_minutes
    IN  result.confidence_score
          = Max(300, Clip(1000 - (d \div 20), 300, 950)
                       - Min(300, t \div 20) - Min(200, w \div 10))

\* C21, amended: the confidence of a normal-path ETA is
\* clip(max(0.5, 1 - d/20) - min(0.3, t/20) - min(0.2, w/10), 0.3, 0.95): the
\* base is floored at 0.5 and not capped, the clip comes after the penalties.
C21_ConfidenceClippedLast ==
  NormalPathEta =>
    LET d == calculate_distance(args.from, args.to)
        t == result.traffic_delay_minutes
        w == result.weather_delay_minutes
    IN  result.confidence_score
          = Clip(Max(500, 1000 - (d \div 20)) - Min(300, t \div 20) - Min(200, w \div 10),
                 300, 950)

\* A trip of under a mile with both delays: the base is above 0.95.
C21_Witness ==
  /\ NormalPathEta
  /\ calculate_distance(args.from, args.to) \in 1..999
  /\ result.traffic_delay_minutes > 0
  /\ result.weather_delay_minutes > 0
  /\ result.confidence_score > 300


\* The strategies of the normal path of optimize_pickup_route with requests.
SequencedStrategies == {"direct_pickup", "exhaustive_search", "nearest_neighbor_heuristic"}

\* Whether the finished call is an optimize_pickup_route that sequenced and
\* scored its requests.
SequencedRoute ==
  /\ op = "optimize_pickup_route" /\ outcome = "returned"
  /\ result.optimization_strategy \in SequencedStrategies

\* The mean over all of waypoints of the traffic multiplier 1 + delay / 30,
\* a waypoint without an answer of the provider counting 1.0.
MeanTrafficMultiplier(zs, waypoints, scenario) ==
  LET n       == Len(waypoints)
      data(i) == TrafficAt(scenario, classify_location_to_zone(zs, waypoints[i].at))
  IN  SumTo([i \in 1..n |-> IF data(i).kind \in {"raises", "none"} THEN 1000
                            ELSE 1000 + (data(i).delay * 1000) \div 30], n) \div n

\* The mean over all of waypoints of the weather multiplier, a waypoint
\* without an answer of the provider counting 1.0.
MeanWeatherMultiplier(waypoints, scenario) ==
  LET n       == Len(waypoints)
      data(i) == WeatherAt(scenario, waypoints[i].at)
  IN  SumTo([i \in 1..n |-> IF data(i).kind \in {"raises", "none"} THEN 1000
                            ELSE weather_impacts(ConditionOf(data(i)))], n) \div n

\* C22: the traffic_impact and the weather_impact of a route are the means of
\* the per-waypoint multipliers over the waypoints of the route, a waypoint
\* for which the provider gives no signal contributing 1.0.  The waypoints of
\* the route are read either way: as returned, or with the driver's start.
C22_ImpactIsMeanOverWaypoints ==
  (SequencedRoute /\ args.scenario # "duration") =>
    LET with_start == <<DriverWaypoint(args.driver_at)>> \o result.waypoints
    IN  \/ /\ result.waypoints # << >>
           /\ result.traffic_impact
                = MeanTrafficMultiplier(zones, result.waypoints, args.scenario)
           /\ result.weather_impact
                = MeanWeatherMultiplier(result.waypoints, args.scenario)
        \/ /\ result.traffic_impact
                = MeanTrafficMultiplier(zones, with_start, args.scenario)
           /\ result.weather_impact
                = MeanWeatherMultiplier(with_start, args.scenario)


\* C23: with the engine wired to MLAPIDataExtractor, the weather_delay_minutes
\* of predict_eta is the lookup-table value of the condition the provider
\* reports for the route midpoint (rain gives 5 minutes).
C23_WeatherDelayOfReportedCondition ==
  (NormalPathEta /\ args.weather.kind = "no_key") =>
    result.weather_delay_minutes = weather_delays(args.weather.conditions)


-----------------------------------------------------------------------------
(***************************************************************************)
(* _get_traffic_delay for every departure hour.  A behaviour starts with   *)
(* the departure hour and the provider's answer in args; the call of the   *)
(* helper is its only step, result is the value it returns.                *)
(***************************************************************************)

DepartureHours == 0..23

TrafficDelayInit ==
  /\ zones = DefaultZones
  /\ op = "idle"
  /\ args \in [hour : DepartureHours, traffic : TrafficResponses]
  /\ outcome = "none"
  /\ result = << >>

GetTrafficDelay ==
  /\ op = "idle"
  /\ op' = "get_traffic_delay"
  /\ outcome' = "returned"
  /\ result' = get_traffic_delay(args.traffic, args.hour)
  /\ UNCHANGED <<zones, args>>

SpecTrafficDelay == TrafficDelayInit /\ [][GetTrafficDelay]_vars

\* C24: for every departure hour h in 0..23 and every delay of the provider,
\* _get_traffic_delay returns the delay times 1.5 when h is one of 7, 8, 9,
\* 17, 18, 19, the delay itself when h is in 10..16, and half of it for every
\* other hour (in thousandths of a minute).
C24_DelayScaledByHour ==
  op = "get_traffic_delay" =>
    LET delay == IF args.traffic.kind \in {"minutes", "timedelta"}
                   THEN args.traffic.delay ELSE 0
    IN  /\ args.hour \in {7, 8, 9, 17, 18, 19} => result = delay * 1500
        /\ args.hour \in {10, 11, 12, 13, 14, 15, 16} => result = delay * 1000
        /\ args.hour \in {0, 1, 2, 3, 4, 5, 6, 20, 21, 22, 23} => result = delay * 500

\* A delay of 30 minutes at noon stays 30 minutes.
C24_Witness ==
  /\ op = "get_traffic_delay"
  /\ args.hour = 12
  /\ args.traffic = [kind |-> "minutes", delay |-> 30]
  /\ result = 30000


\* The provider raised or handed back nothing.
Failed(response) == response.kind \in {"raises", "none"}

\* C25, for predict_eta: a provider that raises or returns no data is asked
\* once, its delay is taken as 0, and the call still returns from its try
\* block when the other provider's answer is well formed.
C25_EtaNeutralOnFailure ==
  (op = "predict_eta" /\ outcome = "returned") =>
    /\ Failed(args.traffic) =>
         /\ args.traffic_queries = 1
         /\ result.traffic_delay_minutes = 0
         /\ result.factors # <<"Fallback estimation">>
    /\ Failed(args.weather) =>
         /\ args.weather_queries = 1
         /\ result.weather_delay_minutes = 0
         /\ ~IsDuration(args.traffic) => result.factors # <<"Fallback estimation">>

\* C25, for optimize_pickup_route on a list of well-formed requests: when a
\* provider fails for waypoints of the sequence the call keeps its strategy
\* (never 'fallback'), and an impact for which every query failed is 1.0.
C25_RouteNeutralOnFailure ==
  (/\ op = "optimize_pickup_route" /\ outcome = "returned"
   /\ args.container = "list" /\ args.pending_requests # << >>
   /\ ~ConversionRaises(args.pending_requests)) =>
    LET sequence == <<DriverWaypoint(args.driver_at)>> \o result.waypoints
        n        == Len(sequence)
        traffic(i) == TrafficAt(args.scenario,
                                classify_location_to_zone(zones, sequence[i].at))
        weather(i) == WeatherAt(args.scenario, sequence[i].at)
    IN  /\ result.optimization_strategy \in SequencedStrategies
        /\ (\A i \in 1..n : Failed(traffic(i))) => result.traffic_impact = 1000
        /\ (\A i \in 1..n : Failed(weather(i))) => result.weather_impact = 1000

C26_UnclassifiedWhenNoZone ==
  \A p \in PointSet :
    /\ zones # << >> =>
         \E i \in 1..Len(zones) :
           /\ zones[i].name = classify_location_to_zone(zones, p)
           /\ \A j \in 1..Len(zones) :
                calculate_distance(p, zones[i].at) <= calculate_distance(p, zones[j].at)
    /\ zones = << >> => classify_location_to_zone(zones, p) = "unclassified"


\* C27: a route returned with strategy 'direct_pickup', 'exhaustive_search' or
\* 'nearest_neighbor_heuristic' holds no 'start' waypoint and exactly one
\* pickup per pending request: its waypoints are a permutation of the
\* requests' pickups, as many as total_passengers and as the requests.
C27_OnePickupPerRequest ==
  SequencedRoute =>
    LET pickups == create_waypoints_from_requests(args.pending_requests)
        n       == Len(pickups)
    IN  /\ \A i \in 1..Len(result.waypoints) : result.waypoints[i].type = "pickup"
        /\ Len(result.waypoints) = n
        /\ result.total_passengers = n
        /\ \E order \in [1..n -> 1..n] :
             /\ \A i, j \in 1..n : i # j => order[i] # order[j]
             /\ result.waypoints = [k \in 1..n |-> pickups[order[k]]]


\* Every 'dropoff' of the list comes after a 'pickup' of the same passenger.
PickupBeforeDropoff(waypoints) ==
  \A i \in 1..Len(waypoints) :
    waypoints[i].type = "dropoff" =>
      \E j \in 1..(i - 1) : /\ waypoints[j].type = "pickup"
                            /\ waypoints[j].passenger_id = waypoints[i].passenger_id

\* C28: in every sequence returned by optimize_multi_stop_route each 'dropoff'
\* is preceded by a 'pickup' of the same passenger_id.  Stated for lists of
\* well-formed waypoints that are themselves in that order.
C28_DropoffAfterPickup ==
  (/\ op = "optimize_multi_stop_route" /\ outcome = "returned"
   /\ \A i \in 1..Len(args.waypoints) : args.waypoints[i].form = "ok"
   /\ PickupBeforeDropoff(args.waypoints)) =>
    PickupBeforeDropoff(result)


\* C29: in the list one find_pool_ride_matches call returns, the match_id
\* values are pairwise distinct and every match lists between 2 and 4 passenger
\* ids, pairwise distinct.
C29_DistinctMatchesAndPassengers ==
  (op = "find_pool_ride_matches" /\ outcome = "returned") =>
    /\ \A i, j \in 1..Len(result) :
         i # j => result[i].match_id # result[j].match_id
    /\ \A i \in 1..Len(result) :
         /\ Len(result[i].passengers) \in 2..max_pool_passengers
         /\ \A p, q \in 1..Len(result[i].passengers) :
              p # q => result[i].passengers[p] # result[i].passengers[q]


\* C30: every optimize_pickup_route call of one request that returns with
\* strategy 'direct_pickup' has route_efficiency_score 0.0: the only leg of
\* the sequence starts at the driver's start point and adds nothing to the
\* ideal distance.
C30_DirectPickupEfficiencyZero ==
  (/\ op = "optimize_pickup_route" /\ outcome = "returned"
   /\ result.optimization_strategy = "direct_pickup") =>
    /\ Len(args.pending_requests) = 1
    /\ result.route_efficiency_score = 0

\* A direct pickup some miles away from the driver, under traffic or weather
\* that lengthens the trip.
C30_Witness ==
  /\ op = "optimize_pickup_route" /\ outcome = "returned"
  /\ result.optimization_strategy = "direct_pickup"
  /\ result.total_distance_miles > 0
  /\ result.total_time_minutes > 0
  /\ result.traffic_impact > 1000 \/ result.weather_impact > 1000
  /\ result.route_efficiency_score = 0

====
